---- MODULE Spec2Model ----
(***************************************************************************)
(* A model of the email-tui mail stack: the IMAP session (imap/src/lib.rs), *)
(* the paginated header cache (gui/src/message_collection.rs) and the SMTP  *)
(* session (smtp/src/lib.rs).                                               *)
(*                                                                          *)
(* Every public operation is one action.  What the peer answers is an       *)
(* input of the action, drawn from a small set of replies; the bytes the    *)
(* peer has sent and the client has not read yet are the variable `stream`  *)
(* (IMAP) or `smtp_stream` (SMTP), so that a reply left unread by one       *)
(* operation is what the next operation reads.                              *)
(*                                                                          *)
(* usize values are kept as integers k: k >= 0 stands for k, k < 0 stands   *)
(* for 2^64 + k (the value a wrapping subtraction produces).                *)
(***************************************************************************)
EXTENDS Integers, Sequences, FiniteSets, TLC

\* ------------------------------------------------------------------ bounds
\* largest number of messages the mailbox on the server holds
MaxInbox == 42
\* largest page index next_page is followed to
MaxPage == 2
\* a login is modelled only while at most this many unread items are pending
MaxPending == 0
\* lines of earlier answers still unread when execute_cmd is called
MaxUnread == 2
\* reply lines of earlier commands still unread when an SMTP operation starts
MaxStale == 1
\* parts of one multipart
MaxParts == 2

VARIABLES
    phase,            \* "start" | "session" (IMap held by the caller) | "cache" | "panic"
    selected_inbox,   \* IMap.selected_inbox : Option<Inbox>
    stream,           \* IMap.stream: what the server sent and nobody read yet
    closed,           \* the server closed the connection (reads past `stream` return 0)
    wire,             \* the commands the last operation wrote to IMap.stream
    ret,              \* the last operation and what it returned
    inboxes,          \* the Vec<Inbox> the caller got from list_inbox
    messages,         \* MessageCollection.messages
    page_size,        \* MessageCollection.page_size
    current_page,     \* MessageCollection.current_page
    srv_count,        \* the server: number of messages in the mailbox
    srv_authed,       \* the server: it accepted a LOGIN on this connection
    overflow_checks,  \* the build: arithmetic overflow panics (debug) or wraps (release)
    batches,          \* history: header batches appended to the cache
    honest,           \* history: every appended batch was the requested headers, ascending
    page_ok,          \* history: what get_current_page returned Ok since the last navigation,
                      \*          and whether it was called again since
    last_fetch,       \* history: the text of the FETCH reply the last cache operation read
    smtp_phase,       \* "start" | "session" | "hung" (check_response never returns)
    smtp_username,    \* SMTP.username : Option<Box<str>>
    smtp_stream,      \* SMTP.stream: reply lines sent by the server and not read yet
    smtp_closed,      \* the SMTP server closed the connection
    smtp_log,         \* writes and reply codes read by the last SMTP operation, in order
    smtp_ret,         \* the last SMTP operation and what it returned
    smtp_authed       \* history: a login on this session read 235 at its last step

imap_vars == <<phase, selected_inbox, stream, closed, wire, ret, inboxes, messages,
               page_size, current_page, srv_count, srv_authed, overflow_checks,
               batches, honest, page_ok, last_fetch>>
smtp_vars == <<smtp_phase, smtp_username, smtp_stream, smtp_closed, smtp_log,
               smtp_ret, smtp_authed>>
vars == <<imap_vars, smtp_vars>>

\* ------------------------------------------------------- Option and Result
None == [some |-> FALSE]
NoPage == [some |-> FALSE, again |-> FALSE]
Some(x) == [some |-> TRUE, v |-> x]
Ok(x) == [ok |-> TRUE, v |-> x]
Err(e) == [ok |-> FALSE, e |-> e]
Panic == [ok |-> FALSE, e |-> "panic"]

Min(a, b) == IF a <= b THEN a ELSE b
Max(a, b) == IF a >= b THEN a ELSE b
Drop(s, n) == SubSeq(s, n + 1, Len(s))
Reverse(s) == [i \in 1..Len(s) |-> s[Len(s) + 1 - i]]

\* ------------------------------------------------------------ wire items
\* One item of `stream` is one response line (an untagged FETCH header item is
\* the "* n FETCH (...)" line with the header lines that continue it).
Tagged(st) == [k |-> "tagged", st |-> st]
Greeting == [k |-> "greeting"]
Capability == [k |-> "capability"]
Exists(n) == [k |-> "exists", n |-> n]
StatusLine(n) == [k |-> "status", n |-> n]
ListLine(flags, name) == [k |-> "list", flags |-> flags, name |-> name]
HeaderBlock(id, subject, from) ==
    [k |-> "fetch", id |-> id, subject |-> subject, from |-> from]
BodyStructureLine(bs) == [k |-> "bodystructure", bs |-> bs]
BodyLine(id) == [k |-> "body", id |-> id]

\* ------------------------------------------------------------ the server
\* What the server may send in answer to one command: the lines, and whether
\* it closes the connection instead of answering.
Reply(lines) == [lines |-> lines, close |-> FALSE]
Hangup == [lines |-> <<>>, close |-> TRUE]

\* One round trip as the environment decides it: the server's reply to the
\* command, or no reply and the connection closed.  On a connection that is
\* already closed nothing is answered, and the write may fail or not.
Round(io, replies) ==
    IF io.closed
    THEN {[w |-> w, lines |-> <<>>, close |-> TRUE] : w \in BOOLEAN}
    ELSE {[w |-> TRUE, lines |-> r.lines, close |-> r.close] : r \in replies \cup {Hangup}}

\* How many of the items left unread when a reader returns are lost with the
\* BufReader it drops (they were read into its buffer together with the last
\* line it consumed): none, one, or all of them.
Losses(rest) == {0, Min(1, Len(rest)), Len(rest)}

\* ------------------------------------------------------- line transport
\* The transport at the start of an operation.  `wire` and `heard` are what
\* the operation wrote and, for each of its calls of read_response, the lines
\* that were there to read; `sent` is what the server sent in answer to each
\* command the operation wrote.
IO == [stream |-> stream, closed |-> closed, wire |-> <<>>, heard |-> <<>>, sent |-> <<>>]

\* The server's answer to a command that reached it arrives behind whatever is
\* still unread; a connection that is closed carries nothing more.
Arrive(io, e) ==
    IF io.closed THEN io
    ELSE [io EXCEPT !.stream = @ \o e.lines, !.closed = e.close]

\* read_response's test `resp.starts_with("?")`
StartsWithTag(item) == item.k = "tagged"
\* read_response's test `resp.contains("BAD")` on a tagged line
ContainsBAD(item) == item.st = "BAD"

FirstTagged(s) ==
    IF \E i \in 1..Len(s) : StartsWithTag(s[i])
    THEN CHOOSE i \in 1..Len(s) :
            StartsWithTag(s[i]) /\ \A j \in 1..(i - 1) : ~StartsWithTag(s[j])
    ELSE 0

\* IMap::run_cmd: write the command line and flush.  A write can fail only on
\* a connection the server has closed.
run_cmd(io, cmd, e) ==
    IF e.w
    THEN [io |-> Arrive([io EXCEPT !.wire = Append(@, cmd), !.sent = Append(@, e.lines)], e),
          res |-> Ok(<<>>)]
    ELSE [io |-> io, res |-> Err("write failed")]

\* IMap::drop_line: read one line and forget it, whatever it is; a read of
\* zero bytes (connection closed) is not an error here.
drop_line(io) ==
    { [io |-> [io EXCEPT !.stream = Drop(Drop(@, Min(Len(@), 1)), d)], res |-> Ok(<<>>)] :
        d \in Losses(Drop(io.stream, Min(Len(io.stream), 1))) }

\* a read_response that hands out the tagged line with the rest
read_response_WithTag(io) ==
    LET s == io.stream
        i == FirstTagged(s)
    IN  IF i = 0
        THEN {[io |-> [io EXCEPT !.stream = <<>>, !.heard = Append(@, s)],
               res |-> Err("connection ended")]}
        ELSE { [io |-> [io EXCEPT !.stream = Drop(Drop(s, i), d), !.heard = Append(@, s)],
                res |-> IF ContainsBAD(s[i]) THEN Err("CMD FAILED")
                        ELSE Ok(SubSeq(s, 1, i))] : d \in Losses(Drop(s, i)) }

\* IMap::read_response: accumulate lines up to the first line that starts with
\* "?"; that line fails the call when it contains BAD; zero bytes read before
\* it is "connection ended".
read_response(io) ==
    LET s == io.stream
        i == FirstTagged(s)
    IN  IF i = 0
        THEN {[io |-> [io EXCEPT !.stream = <<>>, !.heard = Append(@, s)],
               res |-> Err("connection ended")]}
        ELSE { [io |-> [io EXCEPT !.stream = Drop(Drop(s, i), d), !.heard = Append(@, s)],
                res |-> IF ContainsBAD(s[i]) THEN Err("CMD FAILED")
                        ELSE Ok(SubSeq(s, 1, i - 1))] : d \in Losses(Drop(s, i)) }

\* ------------------------------------------------------------- commands
LoginCmd == [verb |-> "LOGIN"]
ListCmd == [verb |-> "LIST"]
SelectCmd(name) == [verb |-> "SELECT", name |-> name]
StatusCmd(name) == [verb |-> "STATUS", name |-> name]
FetchHeadersCmd(lhs, rhs) == [verb |-> "FETCH", what |-> "HEADERS", lhs |-> lhs, rhs |-> rhs]
FetchStructureCmd(id) == [verb |-> "FETCH", what |-> "BODYSTRUCTURE", id |-> id]
FetchBodyCmd(id, section) ==
    [verb |-> "FETCH", what |-> "BODY", id |-> id, section |-> section]

\* -------------------------------------------------------------- parsers
\* The words of a LIST line from the third on, as Inbox::from_str splits it at
\* spaces: the flags, the first opening the parenthesis and the last closing
\* it, then the delimiter and the name.  Of a word only what from_str looks
\* at is kept: whether it ends with ")" and the flag it holds.
ListWords(flags) ==
    (IF flags = <<>> THEN << [flag |-> "", close |-> TRUE] >>
     ELSE [i \in 1..Len(flags) |-> [flag |-> flags[i], close |-> (i = Len(flags))]])
    \o << [flag |-> "delimiter", close |-> FALSE], [flag |-> "name", close |-> FALSE] >>

\* Iterator::take_while(|s| s.ends_with(")"))
RECURSIVE TakeWhileClose(_)
TakeWhileClose(words) ==
    IF words = <<>> \/ ~words[1].close THEN <<>>
    ELSE <<words[1]>> \o TakeWhileClose(Tail(words))

\* Inbox::from_str on one line of a LIST reply (or on whatever line the reply
\* holds): the flags scanned clear selectable and has_children, the name is
\* the text between the last pair of double quotes.
InboxFromStr(item) ==
    LET scanned == IF item.k = "list" THEN TakeWhileClose(ListWords(item.flags)) ELSE <<>>
        name == IF item.k = "list" THEN item.name
                ELSE IF item.k = "bodystructure" THEN Some("quoted text")
                ELSE None
    IN  IF ~name.some THEN Err("Couldn't find name")
        ELSE Ok([name |-> name.v,
                 selectable |-> ~\E i \in 1..Len(scanned) : scanned[i].flag = "Noselect",
                 has_children |-> ~\E i \in 1..Len(scanned) : scanned[i].flag = "HasNoChildren"])

\* Message::from_str on one block of a FETCH reply: the id is the first word
\* that parses as a number, Subject and From lines are mandatory.
MessageFromStr(block) ==
    IF block.k = "fetch"
    THEN IF ~block.id.some THEN Err("No ID found")
         ELSE IF ~block.subject THEN Err("No subject found")
         ELSE IF ~block.from THEN Err("No From found")
         ELSE Ok([id |-> block.id.v])
    ELSE IF block.k \in {"exists", "bodystructure", "body"} THEN Err("No subject found")
    ELSE Err("No ID found")

\* collecting what parsed and leaving out what did not
RECURSIVE Collect_Partial(_)
Collect_Partial(results) ==
    IF results = <<>> THEN Ok(<<>>)
    ELSE LET rest == Collect_Partial(Tail(results))
         IN  IF results[1].ok THEN Ok(<<results[1].v>> \o rest.v) ELSE rest

\* Iterator::collect into Result<Box<[_]>, _>: the first error, or every value
RECURSIVE Collect(_)
Collect(results) ==
    IF results = <<>> THEN Ok(<<>>)
    ELSE IF ~results[1].ok THEN results[1]
    ELSE LET rest == Collect(Tail(results))
         IN  IF rest.ok THEN Ok(<<results[1].v>> \o rest.v) ELSE rest

\* str::split on the text of a reply: a reply with no line is one empty piece
Pieces(val) == IF val = <<>> THEN << [k |-> "empty"] >> ELSE val

\* usize arithmetic: a subtraction overflows when it goes below zero, an
\* addition when it passes 2^64 - 1
SubOverflows(a, b) == a >= 0 /\ a < b
AddOverflows(a, b) == a < 0 /\ a + b >= 0

\* std::ops::Bound
Included(x) == [b |-> "Included", x |-> x]
Excluded(x) == [b |-> "Excluded", x |-> x]
Unbounded == [b |-> "Unbounded", x |-> 0]
Star == [star |-> TRUE, n |-> 0]
Num(n) == [star |-> FALSE, n |-> n]

\* InboxRangeStr::from: the two sides of "lhs:rhs"; an excluded bound is moved
\* by one, which overflows at the ends of usize
InboxRangeStr(range) ==
    LET lhs == CASE range.start.b = "Included" -> Num(range.start.x)
                 [] range.start.b = "Excluded" -> Num(range.start.x + 1)
                 [] OTHER -> Star
        rhs == CASE range.end.b = "Included" -> Num(range.end.x)
                 [] range.end.b = "Excluded" -> Num(range.end.x - 1)
                 [] OTHER -> Star
        over == \/ range.start.b = "Excluded" /\ AddOverflows(range.start.x, 1)
                \/ range.end.b = "Excluded" /\ SubOverflows(range.end.x, 1)
    IN  [panic |-> over /\ overflow_checks, lhs |-> lhs, rhs |-> rhs]

\* ---------------------------------------------------------- body structure
FileMeta(file_type, name) == [file_type |-> file_type, name |-> name]
Plain == [kind |-> "Plain"]
Html == [kind |-> "Html"]
Image(meta) == [kind |-> "Image", meta |-> meta]
Application(meta) == [kind |-> "Application", meta |-> meta]
Mixed(arr, boundary) == [kind |-> "Mixed", arr |-> arr, boundary |-> boundary]
Related(arr, boundary) == [kind |-> "Related", arr |-> arr, boundary |-> boundary]
Alternative(arr, boundary) == [kind |-> "Alternative", arr |-> arr, boundary |-> boundary]

\* StrReader: the text `val` and the number `index` of characters read
\* StrReader::peek
peek(val, index) == IF index < Len(val) THEN Some(SubSeq(val, index + 1, index + 1)) ELSE None
\* StrReader::consume
consume(val, index, count) == Min(index + count, Len(val))
\* act_on_slice(|s| s.starts_with(pat))
starts_with(val, index, pat) ==
    /\ index + Len(pat) <= Len(val)
    /\ SubSeq(val, index + 1, index + Len(pat)) = pat

\* StrReader::get_quoted: [some, v, index]
RECURSIVE get_quoted_loop(_, _, _)
get_quoted_loop(val, start, index) ==
    IF ~peek(val, index).some THEN None
    ELSE LET c == peek(val, index).v
             next == peek(val, index + 1)
         IN  IF c = "\\" /\ next = Some("\"") THEN get_quoted_loop(val, start, index + 1)
             ELSE IF next = Some("\"")
             THEN [some |-> TRUE, v |-> SubSeq(val, start + 1, index + 1), index |-> consume(val, index + 1, 1)]
             ELSE get_quoted_loop(val, start, index + 1)

get_quoted(val, index) ==
    IF peek(val, index) /= Some("\"") THEN None
    ELSE get_quoted_loop(val, index + 1, index + 1)

\* StrReader::consume_until_end_paren: [ok, index]
RECURSIVE consume_until_end_paren_loop(_, _, _, _)
consume_until_end_paren_loop(val, index, p_count, in_quotes) ==
    IF ~peek(val, index).some THEN [ok |-> FALSE, index |-> index]
    ELSE LET c == peek(val, index).v
             next == peek(val, index + 1)
             p == IF c = "(" /\ ~in_quotes THEN p_count + 1
                  ELSE IF c = ")" /\ ~in_quotes THEN p_count - 1
                  ELSE p_count
             q == IF c \in {"(", ")"} /\ ~in_quotes THEN in_quotes
                  ELSE IF c = "\"" /\ ~in_quotes THEN TRUE
                  ELSE IF c = "\\" /\ next = Some("\"") /\ in_quotes THEN in_quotes
                  ELSE IF next = Some("\"") /\ in_quotes THEN FALSE
                  ELSE in_quotes
             i == IF in_quotes /\ next = Some("\"") THEN consume(val, index + 1, 1) ELSE index + 1
         IN  IF p = -1 THEN [ok |-> TRUE, index |-> i]
             ELSE consume_until_end_paren_loop(val, i, p, q)

consume_until_end_paren(val, index) == consume_until_end_paren_loop(val, index, 0, FALSE)

\* BodyStructure::parse_t: [res, index]; it moves the reader it was given
parse_t(val, index) ==
    LET is_plain == starts_with(val, index, "EXT\" \"PLAIN\"")
        is_html == starts_with(val, index, "EXT\" \"HTML\"")
        c == consume_until_end_paren(val, consume(val, index, 4))
    IN  IF ~is_plain /\ ~is_html THEN [res |-> None, index |-> index]
        ELSE IF ~c.ok THEN [res |-> None, index |-> consume(val, index, 4)]
        ELSE [res |-> Some(IF is_html THEN Html ELSE Plain), index |-> c.index]

\* BodyStructure::parse_i, on a copy of the reader
parse_i(val, index) ==
    IF ~starts_with(val, index, "MAGE\" \"") THEN None
    ELSE LET file_type == get_quoted(val, consume(val, index, 6))
         IN  IF ~file_type.some THEN None
             ELSE IF ~starts_with(val, file_type.index, " (\"NAME\" \"") THEN None
             ELSE LET name == get_quoted(val, consume(val, file_type.index, 9))
                  IN  IF ~name.some THEN None
                      ELSE IF ~consume_until_end_paren(val, name.index).ok THEN None
                      ELSE Some(Image(FileMeta(file_type.v, name.v)))

\* BodyStructure::find_boundray
RECURSIVE find_boundray(_, _)
find_boundray(val, index) ==
    IF ~peek(val, index).some THEN None
    ELSE IF peek(val, index).v /= "(" THEN find_boundray(val, index + 1)
    ELSE IF ~starts_with(val, index + 1, "\"BOUNDARY\" \"") THEN None
    ELSE LET b == get_quoted(val, consume(val, index + 1, 11))
         IN  IF b.some THEN Some(b.v) ELSE None

\* BodyStructure::parse_a
parse_a(val, index) ==
    IF starts_with(val, index, "LTERNATIVE\"")
    THEN LET boundry == find_boundray(val, consume(val, index, 11))
         IN  IF boundry.some THEN Some(Alternative(<<>>, boundry.v)) ELSE None
    ELSE IF ~starts_with(val, index, "PPLICATION\" \"") THEN None
    ELSE LET file_type == get_quoted(val, consume(val, index, 12))
         IN  IF ~file_type.some THEN None
             ELSE IF ~starts_with(val, file_type.index, " (\"NAME\") \"") THEN None
             ELSE LET name == get_quoted(val, consume(val, file_type.index, 11))
                  IN  IF ~name.some THEN None
                      ELSE IF ~consume_until_end_paren(val, name.index).ok THEN None
                      ELSE Some(Application(FileMeta(file_type.v, name.v)))

\* BodyStructure::parse_r
parse_r(val, index) ==
    IF ~starts_with(val, index, "ELATED\"") THEN None
    ELSE LET boundry == find_boundray(val, consume(val, index, 7))
         IN  IF boundry.some THEN Some(Related(<<>>, boundry.v)) ELSE None

\* BodyStructure::parse_m
parse_m(val, index) ==
    IF ~starts_with(val, index, "IXED\"") THEN None
    ELSE LET boundry == find_boundray(val, consume(val, index, 5))
         IN  IF boundry.some THEN Some(Mixed(<<>>, boundry.v)) ELSE None

\* s.splitn(n, '(').last()
RECURSIVE splitn_last(_, _)
splitn_last(s, n) ==
    IF n <= 1 \/ \A i \in 1..Len(s) : SubSeq(s, i, i) /= "(" THEN s
    ELSE LET i == CHOOSE k \in 1..Len(s) :
                      SubSeq(s, k, k) = "(" /\ \A j \in 1..(k - 1) : SubSeq(s, j, j) /= "("
         IN  splitn_last(SubSeq(s, i + 1, Len(s)), n - 1)

\* The next character, from `index` on, that the match of the loop has an
\* arm for: a letter T, I, A, R, M or the first of two "(" (reading any other
\* character changes nothing but the index)
next_arm(cmd, index) ==
    LET arms == {j \in index..(Len(cmd) - 1) :
                    \/ SubSeq(cmd, j + 1, j + 1) \in {"T", "I", "A", "R", "M"}
                    \/ SubSeq(cmd, j + 1, j + 1) = "(" /\ peek(cmd, j + 1) = Some("(")}
    IN  IF arms = {} THEN Len(cmd) ELSE CHOOSE j \in arms : \A k \in arms : j <= k

\* the loop of BodyStructure::from_str
RECURSIVE from_str_loop(_, _, _, _)
from_str_loop(cmd, from, v, splits) ==
    LET index == next_arm(cmd, from)
    IN
    IF ~peek(cmd, index).some
    THEN IF Len(v) /= 1 THEN Err("Error parsing") ELSE Ok(v[1])
    ELSE LET c == peek(cmd, index).v
             t == parse_t(cmd, index + 1)
             result == IF c = "T" THEN t.res
                       ELSE IF c = "I" THEN parse_i(cmd, index + 1)
                       ELSE IF c = "A" THEN parse_a(cmd, index + 1)
                       ELSE IF c = "R" THEN parse_r(cmd, index + 1)
                       ELSE IF c = "M" THEN parse_m(cmd, index + 1)
                       ELSE None
             next == IF c = "T" THEN t.index ELSE index + 1
         IN  IF c = "("
             THEN from_str_loop(cmd, index + 1, v, Append(splits, Len(v)))
             ELSE IF ~result.some THEN from_str_loop(cmd, next, v, splits)
             ELSE IF result.v.kind \in {"Alternative", "Mixed", "Related"}
             THEN IF splits = <<>> THEN Err("Invalid str couldn't find split")
                  ELSE LET last_split == splits[Len(splits)]
                       IN  from_str_loop(cmd, next,
                               Append(SubSeq(v, 1, last_split),
                                      [result.v EXCEPT !.arr = SubSeq(v, last_split + 1, Len(v))]),
                               SubSeq(splits, 1, Len(splits) - 1))
             ELSE from_str_loop(cmd, next, Append(v, result.v), splits)

\* BodyStructure::from_str
from_str(s) == from_str_loop(splitn_last(s, 3), 0, <<>>, <<0>>)

\* BodyStructure::find_text_dfs: (path, found)
RECURSIVE find_text_dfs(_, _)
RECURSIVE find_text_children(_, _, _, _)
find_text_children(arr, i, path, new_path) ==
    IF i > Len(arr) THEN [path |-> path, found |-> FALSE]
    ELSE LET r == find_text_dfs(arr[i], [new_path EXCEPT ![Len(new_path)] = i])
         IN  IF r.found THEN r ELSE find_text_children(arr, i + 1, path, new_path)

\* a lookup that takes an Html leaf for text as well
find_text_dfs_HtmlToo(current, path) ==
    IF current.kind \in {"Plain", "Html"}
    THEN [path |-> IF path = <<>> THEN <<1>> ELSE path, found |-> TRUE]
    ELSE IF current.kind \in {"Application", "Image"}
    THEN [path |-> path, found |-> FALSE]
    ELSE find_text_children(current.arr, 1, path, Append(path, 1))

find_text_dfs(current, path) ==
    IF current.kind = "Plain"
    THEN [path |-> IF path = <<>> THEN <<1>> ELSE path, found |-> TRUE]
    ELSE IF current.kind \in {"Html", "Application", "Image"}
    THEN [path |-> path, found |-> FALSE]
    ELSE find_text_children(current.arr, 1, path, Append(path, 1))

\* path.iter().map(|x| format!("{}", x)).collect::<Vec<String>>().join(".")
RECURSIVE JoinDots(_)
JoinDots(path) ==
    IF path = <<>> THEN ""
    ELSE IF Len(path) = 1 THEN ToString(path[1])
    ELSE ToString(path[1]) \o "." \o JoinDots(Tail(path))

\* BodyStructure::find_text
find_text(bs) ==
    LET r == find_text_dfs(bs, <<>>)
    IN  IF r.found THEN Some(JoinDots(r.path)) ELSE None

\* ------------------------------------------------- what the server answers
\* The mailboxes a LIST reply may name, as LIST lines
ListLines ==
    << ListLine(<<"HasNoChildren">>, Some("INBOX")),
       ListLine(<<"Noselect">>, Some("Archive")),
       ListLine(<<"HasChildren", "Noselect">>, Some("[Gmail]")) >>

\* A message's parts as the server describes them: a leaf with its type,
\* subtype and parameter list, or a multipart with its parts, subtype and
\* BOUNDARY parameter.
Charset == [text |-> "(\"CHARSET\" \"utf-8\")", name |-> None]
NoParams == [text |-> "NIL", name |-> None]
Named(file) == [text |-> "(\"NAME\" \"" \o file \o "\")", name |-> Some(file)]
\* the text parse_a looks for behind an APPLICATION subtype
NameClosed(file) == [text |-> "(\"NAME\") \"" \o file \o "\"", name |-> Some(file)]
Leaf(type, subtype, params) ==
    [multi |-> FALSE, type |-> type, subtype |-> subtype, params |-> params]
Multipart(subtype, parts, boundary) ==
    [multi |-> TRUE, subtype |-> subtype, parts |-> parts, boundary |-> boundary]

TextPlain == Leaf("TEXT", "PLAIN", Charset)
TextHtml == Leaf("TEXT", "HTML", Charset)
TextCalendar == Leaf("TEXT", "CALENDAR", Charset)
ImagePng == Leaf("IMAGE", "PNG", Named("a.png"))
ImageParens == Leaf("IMAGE", "PNG", Named("a((1)).png"))
ImageGif == Leaf("IMAGE", "GIF", NoParams)
AppPdf == Leaf("APPLICATION", "PDF", Named("a.pdf"))
AppClosed == Leaf("APPLICATION", "PDF", NameClosed("a.pdf"))

\* The BODYSTRUCTURE text of a part, as in the reply of the parser's test
RECURSIVE BodyText(_)
RECURSIVE PartsText(_)
PartsText(parts) ==
    IF parts = <<>> THEN "" ELSE BodyText(Head(parts)) \o PartsText(Tail(parts))

BodyText(body) ==
    IF body.multi
    THEN "(" \o PartsText(body.parts) \o " \"" \o body.subtype
             \o "\" (\"BOUNDARY\" \"" \o body.boundary \o "\") NIL NIL)"
    ELSE "(\"" \o body.type \o "\" \"" \o body.subtype \o "\" " \o body.params.text
             \o " NIL NIL \"7BIT\" 8)"

\* The reply line of FETCH id (BODYSTRUCTURE)
FetchLine(body) == "* 1 FETCH (BODYSTRUCTURE " \o BodyText(body) \o ")\r\n"

\* The messages the server may hold
ServerBodies ==
    { TextPlain, TextHtml,
      Multipart("ALTERNATIVE",
                <<TextPlain, Multipart("RELATED", <<TextHtml, ImagePng, ImagePng>>, "b2")>>, "b1"),
      Multipart("MIXED",
                <<Multipart("ALTERNATIVE", <<TextHtml, TextPlain>>, "b2"), AppPdf>>, "b1"),
      Multipart("MIXED", <<TextHtml, ImagePng>>, "b1") }

\* raw_bodystruct.parse() of each of these lines
Parsed == [t \in {FetchLine(b) : b \in ServerBodies} |-> from_str(t)]

\* A sequence-set bound as the server reads it: "*" is the highest sequence
\* number; 0 and numbers past 2^32 - 1 (every wrapped value) are no numbers.
ValidBound(b) == b.star \/ b.n >= 1
BoundValue(b) == IF b.star THEN srv_count ELSE b.n

\* The header items of the messages lo..hi that exist, in ascending order
HeaderBlocks(lo, hi) ==
    [i \in 1..Max(0, Min(hi, srv_count) - Max(lo, 1) + 1) |->
        HeaderBlock(Some(Max(lo, 1) + i - 1), TRUE, TRUE)]

\* Answers to FETCH lhs:rhs (headers): the headers asked for; the same with one
\* block that does not parse, in descending order, or without the oldest; a
\* refusal.
HeaderReplies(lhs, rhs) ==
    LET lo == Min(BoundValue(lhs), BoundValue(rhs))
        hi == Max(BoundValue(lhs), BoundValue(rhs))
        blocks == HeaderBlocks(lo, hi)
        n == Len(blocks)
        done == <<Tagged("OK")>>
    IN  IF ~(ValidBound(lhs) /\ ValidBound(rhs))
        THEN {Reply(<<Tagged("BAD")>>), Reply(<<Tagged("NO")>>)}
        ELSE {Reply(blocks \o done), Reply(<<Tagged("BAD")>>), Reply(<<Tagged("NO")>>)}
             \cup (IF n = 0 THEN {}
                   ELSE {Reply([blocks EXCEPT ![1] = HeaderBlock(None, TRUE, TRUE)] \o done),
                         Reply([blocks EXCEPT ![n] = HeaderBlock(Some(hi), FALSE, TRUE)] \o done),
                         Reply([blocks EXCEPT ![n] = HeaderBlock(Some(hi), TRUE, FALSE)] \o done),
                         Reply(Reverse(blocks) \o done),
                         Reply(Tail(blocks) \o done)})

\* The server's possible answers to a command
Replies(cmd) ==
    CASE cmd.verb = "LOGIN" ->
            {Reply(<<Tagged("OK")>>), Reply(<<Capability, Tagged("OK")>>),
             Reply(<<Tagged("NO")>>), Reply(<<Tagged("BAD")>>)}
      [] cmd.verb = "LIST" ->
            {Reply(ListLines \o <<Tagged("OK")>>),
             Reply(<<ListLine(<<>>, None), Tagged("OK")>>),
             Reply(<<Tagged("NO")>>), Reply(<<Tagged("BAD")>>)}
      [] cmd.verb = "SELECT" ->
            {Reply(<<Exists(srv_count), Tagged("OK")>>),
             Reply(<<Tagged("NO")>>), Reply(<<Tagged("BAD")>>)}
      [] cmd.verb = "STATUS" ->
            {Reply(<<StatusLine(srv_count), Tagged("OK")>>),
             Reply(<<Tagged("NO")>>), Reply(<<Tagged("BAD")>>)}
      [] cmd.verb = "FETCH" /\ cmd.what = "HEADERS" -> HeaderReplies(cmd.lhs, cmd.rhs)
      [] cmd.verb = "FETCH" /\ cmd.what = "BODYSTRUCTURE" ->
            {Reply(<<BodyStructureLine(Some(FetchLine(b))), Tagged("OK")>>) : b \in ServerBodies}
            \cup {Reply(<<BodyStructureLine(None), Tagged("OK")>>),
                  Reply(<<Tagged("NO")>>), Reply(<<Tagged("BAD")>>)}
      [] OTHER ->
            {Reply(<<BodyLine(cmd.id), Tagged("OK")>>),
             Reply(<<Tagged("NO")>>), Reply(<<Tagged("BAD")>>)}

\* The server accepts a LOGIN exactly when its tagged reply is OK
Accepts(e) == e.lines /= <<>> /\ e.lines[Len(e.lines)] = Tagged("OK")

\* ------------------------------------------------------------ IMap methods
\* Each method is the set of its possible outcomes [io, res], one for every
\* way the server and the transport may behave during the call.

\* IMap::execute_cmd
execute_cmd(io, cmd) ==
    UNION { LET w == run_cmd(io, cmd, e)
            IN  IF w.res.ok THEN read_response(w.io) ELSE {w} : e \in Round(io, Replies(cmd)) }

\* IMap::login; `accepted`: the command reached the server and it said OK
login(io) ==
    UNION { LET w == run_cmd(io, LoginCmd, e)
            IN  IF w.res.ok
                THEN { [io |-> r.io, res |-> r.res, accepted |-> Accepts(e)] : r \in drop_line(w.io) }
                ELSE {[io |-> w.io, res |-> w.res, accepted |-> FALSE]} :
              e \in Round(io, Replies(LoginCmd)) }

\* IMap::list_inbox
list_inbox(io) ==
    { IF ~r.res.ok THEN r
      ELSE [io |-> r.io,
            res |-> Collect([i \in 1..Len(Pieces(r.res.v)) |-> InboxFromStr(Pieces(r.res.v)[i])])] :
        r \in execute_cmd(io, ListCmd) }

\* a select_inbox that sends SELECT whatever the mailbox's flags
select_inbox_Unchecked(io, sel, inbox) ==
    { IF ~r.res.ok THEN [io |-> r.io, res |-> r.res, sel |-> sel]
      ELSE [io |-> r.io, res |-> Ok(<<>>), sel |-> Some(inbox)] :
        r \in execute_cmd(io, SelectCmd(inbox.name)) }

\* a select_inbox that records the mailbox before the command is answered
select_inbox_Eager(io, sel, inbox) ==
    IF ~inbox.selectable
    THEN {[io |-> io, res |-> Err("Error: Inbox not selectable"), sel |-> sel]}
    ELSE { IF ~r.res.ok THEN [io |-> r.io, res |-> r.res, sel |-> Some(inbox)]
           ELSE [io |-> r.io, res |-> Ok(<<>>), sel |-> Some(inbox)] :
             r \in execute_cmd(io, SelectCmd(inbox.name)) }

\* IMap::select_inbox; `sel` is selected_inbox after the call
select_inbox(io, sel, inbox) ==
    IF ~inbox.selectable
    THEN {[io |-> io, res |-> Err("Error: Inbox not selectable"), sel |-> sel]}
    ELSE { IF ~r.res.ok THEN [io |-> r.io, res |-> r.res, sel |-> sel]
           ELSE [io |-> r.io, res |-> Ok(<<>>), sel |-> Some(inbox)] :
             r \in execute_cmd(io, SelectCmd(inbox.name)) }

\* IMap::get_inbox_count: the last word of the reply without its last
\* character, parsed as a number
get_inbox_count(io, sel) ==
    IF ~sel.some THEN {[io |-> io, res |-> Err("")]}
    ELSE { IF ~r.res.ok THEN r
           ELSE IF r.res.v = <<>> THEN [io |-> r.io, res |-> Err("No messages found")]
           ELSE IF r.res.v[Len(r.res.v)].k /= "status"
                THEN [io |-> r.io, res |-> Err("Invalid no number found")]
           ELSE [io |-> r.io, res |-> Ok(r.res.v[Len(r.res.v)].n)] :
             r \in execute_cmd(io, StatusCmd(sel.v.name)) }

\* IMap::get_n_email_headers; `val` is the text of the reply it parsed
get_n_email_headers(io, range) ==
    LET rs == InboxRangeStr(range)
    IN  IF rs.panic THEN {[io |-> io, res |-> Panic, val |-> None]}
        ELSE { IF ~r.res.ok THEN [io |-> r.io, res |-> r.res, val |-> None]
               ELSE [io |-> r.io,
                     res |-> Collect([i \in 1..Len(Pieces(r.res.v)) |->
                                        MessageFromStr(Pieces(r.res.v)[i])]),
                     val |-> Some(r.res.v)] :
                 r \in execute_cmd(io, FetchHeadersCmd(rs.lhs, rs.rhs)) }

\* IMap::get_body_structure: the reply parses when it holds one well-formed
\* BODYSTRUCTURE line and, besides it, only lines without parentheses
get_body_structure(io, id) ==
    { IF ~r.res.ok THEN r
      ELSE LET lines == SelectSeq(r.res.v, LAMBDA x : x.k \notin {"exists", "capability", "greeting"})
           IN  IF Len(lines) = 1 /\ lines[1].k = "bodystructure" /\ lines[1].bs.some
               THEN [io |-> r.io, res |-> Parsed[lines[1].bs.v]]
               ELSE [io |-> r.io, res |-> Err("Error parsing")] :
        r \in execute_cmd(io, FetchStructureCmd(id)) }

\* a read_email that asks for section 1 when it finds no text part
read_email_Section1(io, id) ==
    UNION { IF ~b.res.ok THEN {[io |-> b.io, res |-> b.res, bs |-> b.res]}
            ELSE IF ~find_text(b.res.v).some
            THEN { [io |-> r.io, res |-> r.res, bs |-> b.res] :
                     r \in execute_cmd(b.io, FetchBodyCmd(id, "1")) }
            ELSE { [io |-> r.io, res |-> r.res, bs |-> b.res] :
                     r \in execute_cmd(b.io, FetchBodyCmd(id, find_text(b.res.v).v)) } :
              b \in get_body_structure(io, id) }

\* IMap::read_email; `bs` is what get_body_structure returned to it
read_email(io, id) ==
    UNION { IF ~b.res.ok THEN {[io |-> b.io, res |-> b.res, bs |-> b.res]}
            ELSE IF ~find_text(b.res.v).some
            THEN {[io |-> b.io, res |-> Err("No Text found"), bs |-> b.res]}
            ELSE { [io |-> r.io, res |-> r.res, bs |-> b.res] :
                     r \in execute_cmd(b.io, FetchBodyCmd(id, find_text(b.res.v).v)) } :
              b \in get_body_structure(io, id) }

\* ------------------------------------------------------- MessageCollection
\* MessageCollection::get_range_from_page
get_range_from_page == [start |-> current_page * page_size,
                        end |-> current_page * page_size + page_size]

\* &self.messages[range]
Slice(s, range) == SubSeq(s, range.start + 1, range.end)

\* The range get_current_page asks get_n_email_headers for
BatchRange(last_loaded) ==
    [start |-> Included(last_loaded - 1), end |-> Excluded(last_loaded - 19)]

\* a batch appended in the order the server sent it
BatchOrder_Unreversed(headers) == headers

\* The order in which get_current_page appends a batch
BatchOrder(headers) == Reverse(headers)

\* a page counted as cached only when the cache goes beyond its end
Cached_Strict(range) == range.end < Len(messages)

\* get_current_page's test that the page is in the cache already
Cached(range) == range.end <= Len(messages)

\* a cache that holds the last batch alone
Extended_Replaced(headers) == BatchOrder(headers)

\* self.messages.extend(headers.iter().rev().cloned())
Extended(headers) == messages \o BatchOrder(headers)

\* a prev_page that subtracts without saturating
prev_page_Unsaturated(page) == page - 1

\* MessageCollection::prev_page: current_page.saturating_sub(1)
prev_page(page) == IF page >= 1 THEN page - 1 ELSE 0

\* MessageCollection::next_page
next_page(page) == page + 1

\* MessageCollection::get_current_page: the set of outcomes
\* [io, res, messages, val]; res is Panic when an overflow check or the final
\* assertion fails, val is the text of the FETCH reply the call read, if any.
get_current_page(io) ==
    LET range == get_range_from_page
    IN  IF Cached(range)
        THEN {[io |-> io, res |-> Ok(Slice(messages, range)), messages |-> messages,
               val |-> None]}
        ELSE UNION {
            IF ~c.res.ok
            THEN {[io |-> c.io, res |-> c.res, messages |-> messages, val |-> None]}
            ELSE LET last_loaded == IF messages /= <<>> THEN messages[Len(messages)].id
                                    ELSE c.res.v
                 IN  IF overflow_checks /\ (SubOverflows(last_loaded, 1) \/ SubOverflows(last_loaded, 19))
                     THEN {[io |-> c.io, res |-> Panic, messages |-> messages, val |-> None]}
                     ELSE { IF ~h.res.ok
                            THEN [io |-> h.io, res |-> h.res, messages |-> messages, val |-> h.val]
                            ELSE LET extended == Extended(h.res.v)
                                 IN  [io |-> h.io,
                                      res |-> IF range.end <= Len(extended)
                                              THEN Ok(Slice(extended, range)) ELSE Panic,
                                      messages |-> extended, val |-> h.val] :
                              h \in get_n_email_headers(c.io, BatchRange(last_loaded)) } :
            c \in get_inbox_count(io, selected_inbox) }

\* MessageCollection::get_body: indexing the page panics past its end
get_body(io, index) ==
    UNION { IF ~g.res.ok THEN {g}
            ELSE IF index >= Len(g.res.v) THEN {[g EXCEPT !.res = Panic]}
            ELSE { [g EXCEPT !.io = r.io, !.res = r.res] :
                     r \in read_email(g.io, g.res.v[index + 1].id) } :
              g \in get_current_page(io) }

\* ------------------------------------------------------------------ inputs
\* mailbox sizes the session operations are explored with
SessionSizes == {2}
\* mailbox sizes the cache is explored with: the sizes around one batch, and
\* the largest ones
InboxSizes == {n \in 0..MaxInbox : n \in {0, 1, 20, 21} \/ n >= MaxInbox - 1}
\* page sizes MessageCollection::new is called with (the application passes 40)
PageSizes == {7, 20, 40}
\* ranges get_n_email_headers is called with directly
Ranges ==
    { [start |-> Included(1), end |-> Included(2)],
      [start |-> Unbounded, end |-> Included(2)],
      [start |-> Included(1), end |-> Excluded(0)] }
\* message ids get_body_structure and read_email are called with directly
Ids == {1}

\* ----------------------------------------------------------------- actions
SetIO(r) ==
    /\ stream' = r.io.stream
    /\ closed' = r.io.closed
    /\ wire' = r.io.wire

Returns(op, res) ==
    /\ ret' = [op |-> op, res |-> res]
    /\ phase' = IF res = Panic THEN "panic" ELSE phase

cache_vars == <<messages, page_size, current_page, batches, honest, page_ok, last_fetch>>
build_vars == <<srv_count, overflow_checks>>

\* IMap::connect: TCP and TLS may fail; then the greeting line is dropped
Connect ==
    /\ phase = "start"
    /\ \E up \in BOOLEAN :
         IF ~up
         THEN /\ ret' = [op |-> "connect", res |-> Err("connect failed")]
              /\ UNCHANGED <<phase, selected_inbox, stream, closed, wire>>
         ELSE \E greeting \in {Reply(<<Greeting>>), Hangup} :
              \E r \in drop_line([stream |-> greeting.lines, closed |-> greeting.close,
                                  wire |-> <<>>, heard |-> <<>>, sent |-> <<>>]) :
                  /\ SetIO(r)
                  /\ selected_inbox' = None
                  /\ ret' = [op |-> "connect", res |-> r.res]
                  /\ phase' = "session"
    /\ UNCHANGED <<inboxes, srv_authed, build_vars, cache_vars, smtp_vars>>

Login ==
    /\ phase = "session"
    /\ Len(stream) <= MaxPending
    /\ \E r \in login(IO) :
         /\ SetIO(r)
         /\ ret' = [op |-> "login", res |-> r.res, accepted |-> r.accepted]
         /\ UNCHANGED phase
         /\ srv_authed' = (srv_authed \/ r.accepted)
    /\ UNCHANGED <<selected_inbox, inboxes, build_vars, cache_vars, smtp_vars>>

ListInbox ==
    /\ phase = "session"
    /\ \E r \in list_inbox(IO) :
         /\ SetIO(r)
         /\ Returns("list_inbox", r.res)
         /\ inboxes' = IF r.res.ok THEN {r.res.v[i] : i \in 1..Len(r.res.v)} ELSE inboxes
    /\ UNCHANGED <<selected_inbox, srv_authed, build_vars, cache_vars, smtp_vars>>

\* select_inbox takes the Inbox by value: the caller gives it away
SelectInbox ==
    /\ phase = "session"
    /\ \E inbox \in inboxes : \E r \in select_inbox(IO, selected_inbox, inbox) :
         /\ SetIO(r)
         /\ ret' = [op |-> "select_inbox", res |-> r.res, arg |-> inbox, sent |-> r.io.sent]
         /\ UNCHANGED phase
         /\ selected_inbox' = r.sel
         /\ inboxes' = inboxes \ {inbox}
    /\ UNCHANGED <<srv_authed, build_vars, cache_vars, smtp_vars>>

GetInboxCount ==
    /\ phase = "session"
    /\ \E r \in get_inbox_count(IO, selected_inbox) :
         /\ SetIO(r)
         /\ Returns("get_inbox_count", r.res)
    /\ UNCHANGED <<selected_inbox, inboxes, srv_authed, build_vars, cache_vars, smtp_vars>>

GetNEmailHeaders ==
    /\ phase = "session"
    /\ \E range \in Ranges : \E r \in get_n_email_headers(IO, range) :
         /\ SetIO(r)
         /\ ret' = [op |-> "get_n_email_headers", res |-> r.res, range |-> range]
         /\ phase' = IF r.res = Panic THEN "panic" ELSE phase
    /\ UNCHANGED <<selected_inbox, inboxes, srv_authed, build_vars, cache_vars, smtp_vars>>

GetBodyStructure ==
    /\ phase = "session"
    /\ \E id \in Ids : \E r \in get_body_structure(IO, id) :
         /\ SetIO(r)
         /\ Returns("get_body_structure", r.res)
    /\ UNCHANGED <<selected_inbox, inboxes, srv_authed, build_vars, cache_vars, smtp_vars>>

ReadEmail ==
    /\ phase = "session"
    /\ \E id \in Ids : \E r \in read_email(IO, id) :
         /\ SetIO(r)
         /\ ret' = [op |-> "read_email", res |-> r.res, id |-> id, bs |-> r.bs]
         /\ UNCHANGED phase
    /\ UNCHANGED <<selected_inbox, inboxes, srv_authed, build_vars, cache_vars, smtp_vars>>

NextPage ==
    /\ phase = "cache"
    /\ current_page < MaxPage
    /\ current_page' = next_page(current_page)
    /\ ret' = [op |-> "next_page", res |-> Ok(<<>>), from |-> current_page]
    /\ wire' = <<>>
    /\ page_ok' = NoPage
    /\ last_fetch' = None
    /\ UNCHANGED <<phase, selected_inbox, stream, closed, inboxes, messages, page_size,
                   srv_authed, build_vars, batches, honest, smtp_vars>>

PrevPage ==
    /\ phase = "cache"
    /\ current_page' = prev_page(current_page)
    /\ ret' = [op |-> "prev_page", res |-> Ok(<<>>), from |-> current_page]
    /\ wire' = <<>>
    /\ page_ok' = NoPage
    /\ last_fetch' = None
    /\ UNCHANGED <<phase, selected_inbox, stream, closed, inboxes, messages, page_size,
                   srv_authed, build_vars, batches, honest, smtp_vars>>

\* A FETCH reply is the headers asked for when it holds the messages lo..hi of
\* the command, each once, complete, in ascending order.
IsRequested(val, cmd) ==
    /\ ~cmd.lhs.star /\ ~cmd.rhs.star
    /\ Min(cmd.lhs.n, cmd.rhs.n) >= 1
    /\ val = [i \in 1..(Max(cmd.lhs.n, cmd.rhs.n) - Min(cmd.lhs.n, cmd.rhs.n) + 1) |->
                HeaderBlock(Some(Min(cmd.lhs.n, cmd.rhs.n) + i - 1), TRUE, TRUE)]

\* What a call of get_current_page leaves in the cache and in the history
Paged(r) ==
    /\ messages' = r.messages
    /\ last_fetch' = r.val
    /\ batches' = IF r.messages /= messages THEN batches + 1 ELSE batches
    /\ honest' = (honest /\ (r.messages /= messages => IsRequested(r.val.v, r.io.wire[2])))

GetCurrentPage ==
    /\ phase = "cache"
    /\ \E r \in get_current_page(IO) :
         /\ SetIO(r)
         /\ Returns("get_current_page", r.res)
         /\ Paged(r)
         /\ page_ok' = IF r.res.ok THEN [some |-> TRUE, v |-> r.res.v, again |-> page_ok.some]
                        ELSE NoPage
    /\ UNCHANGED <<selected_inbox, inboxes, page_size, current_page, srv_authed,
                   build_vars, smtp_vars>>

GetBody ==
    /\ phase = "cache"
    /\ \E index \in {0, page_size} : \E r \in get_body(IO, index) :
         /\ SetIO(r)
         /\ Returns("get_body", r.res)
         /\ Paged(r)
         /\ page_ok' = IF r.res = Panic THEN NoPage ELSE page_ok
    /\ UNCHANGED <<selected_inbox, inboxes, page_size, current_page, srv_authed,
                   build_vars, smtp_vars>>

\* ----------------------------------------------------------- specification
SmtpIdle ==
    /\ smtp_phase = "start"
    /\ smtp_username = None
    /\ smtp_stream = <<>>
    /\ smtp_closed = FALSE
    /\ smtp_log = <<>>
    /\ smtp_ret = [op |-> "none", res |-> Ok(<<>>)]
    /\ smtp_authed = FALSE

CacheIdle ==
    /\ messages = <<>>
    /\ page_size = 0
    /\ current_page = 0
    /\ batches = 0
    /\ honest = TRUE
    /\ page_ok = NoPage
    /\ last_fetch = None

\* The IMAP session: before IMap::connect
Init ==
    /\ phase = "start"
    /\ selected_inbox = None
    /\ stream = <<>>
    /\ closed = FALSE
    /\ wire = <<>>
    /\ ret = [op |-> "none", res |-> Ok(<<>>)]
    /\ inboxes = {}
    /\ srv_authed = FALSE
    /\ srv_count \in SessionSizes
    /\ overflow_checks \in BOOLEAN
    /\ CacheIdle
    /\ SmtpIdle

Next ==
    \/ Connect
    \/ Login
    \/ ListInbox
    \/ SelectInbox
    \/ GetInboxCount
    \/ GetNEmailHeaders
    \/ GetBodyStructure
    \/ ReadEmail

Spec == Init /\ [][Next]_vars

\* The cache: after MessageCollection::new(imap, page_size), for a session
\* that is logged in, has a mailbox selected or not, and has the tagged line
\* of the LOGIN reply still unread or not
CacheInit ==
    /\ phase = "cache"
    /\ selected_inbox \in {None, Some([name |-> "INBOX", selectable |-> TRUE,
                                       has_children |-> FALSE])}
    /\ stream \in {<<>>, <<Tagged("OK")>>}
    /\ closed = FALSE
    /\ wire = <<>>
    /\ ret = [op |-> "new", res |-> Ok(<<>>)]
    /\ inboxes = {}
    /\ srv_authed = TRUE
    /\ srv_count \in InboxSizes
    /\ overflow_checks \in BOOLEAN
    /\ messages = <<>>
    /\ page_size \in PageSizes
    /\ current_page = 0
    /\ batches = 0
    /\ honest = TRUE
    /\ page_ok = NoPage
    /\ last_fetch = None
    /\ SmtpIdle

CacheNext ==
    \/ NextPage
    \/ PrevPage
    \/ GetCurrentPage
    \/ GetBody

SpecCache == CacheInit /\ [][CacheNext]_vars

\* ------------------------------------------- properties of the IMAP session
\* C4: IMAP login fails when the server rejects it: login returns Ok only when
\* the server accepted the credentials.
C4_LoginOkOnlyWhenAccepted ==
    (ret.op = "login" /\ ret.res.ok) => ret.accepted

FetchOps == {"get_n_email_headers", "get_body_structure", "read_email"}

WroteFetch == \E i \in 1..Len(wire) : wire[i].verb = "FETCH"

\* C9: with no mailbox selected, get_n_email_headers, get_body_structure and
\* read_email fail as get_inbox_count does, and write no FETCH command.
C9_FetchNeedsSelection ==
    (ret.op \in FetchOps \cup {"get_inbox_count"} /\ ~selected_inbox.some) =>
        (~ret.res.ok /\ ~WroteFetch)

\* C10: select_inbox called with a mailbox whose selectable flag is false
\* returns an error, writes nothing to the transport and leaves the recorded
\* selection as it was.
C10_NotSelectableIsLocal ==
    [][(ret'.op = "select_inbox" /\ ~ret'.arg.selectable) =>
            /\ ~ret'.res.ok
            /\ wire' = <<>>
            /\ stream' = stream
            /\ selected_inbox' = selected_inbox]_vars

\* a mailbox that is not selectable was refused while another was selected
C10_RefusedWhileSelected ==
    /\ ret.op = "select_inbox"
    /\ ~ret.arg.selectable
    /\ selected_inbox.some

\* C17: for every LIST line with one or more flags, the parsed mailbox has
\* selectable = false exactly when \Noselect is among the flags and
\* has_children = false exactly when \HasNoChildren is among them, whatever
\* their number and order; its name is the quoted name of the line.
C17_FlagsSetTheFields ==
    \A inbox \in inboxes : \A i \in 1..Len(ListLines) :
        ListLines[i].name = Some(inbox.name) =>
            LET flags == {ListLines[i].flags[j] : j \in 1..Len(ListLines[i].flags)}
            IN  /\ inbox.selectable = ("Noselect" \notin flags)
                /\ inbox.has_children = ("HasNoChildren" \notin flags)

\* C21: a range a..=b is written as "a:b", ..=b as "*:b" and a.. as "a:*"; an
\* exclusive end bound e is written as e-1 and an exclusive start bound s as s+1.
C21_RangeRendering ==
    ret.op = "get_n_email_headers" =>
        LET start == ret.range.start
            end == ret.range.end
            lhs == CASE start.b = "Included" -> Num(start.x)
                     [] start.b = "Excluded" -> Num(start.x + 1)
                     [] start.b = "Unbounded" -> Star
            rhs == CASE end.b = "Included" -> Num(end.x)
                     [] end.b = "Excluded" -> Num(end.x - 1)
                     [] end.b = "Unbounded" -> Star
        IN  /\ ret.res /= Panic
            /\ wire /= <<>> =>
                 /\ wire[1] = FetchHeadersCmd(lhs, rhs)
                 /\ lhs.star \/ lhs.n >= 0
                 /\ rhs.star \/ rhs.n >= 0

\* C22: the recorded selection changes only inside select_inbox: every other
\* operation leaves it as it was, whether it succeeds or fails, and a
\* select_inbox that returns an error leaves the earlier selection in place.
C22_SelectionChangesOnlyInSelect ==
    [][selected_inbox' /= selected_inbox =>
            /\ ret'.op = "select_inbox"
            /\ ret'.res.ok
            /\ selected_inbox' = Some(ret'.arg)]_vars

\* a selectable mailbox was refused by the server or the transport while
\* another one was selected
C22_FailedSelectKeptSelection ==
    /\ ret.op = "select_inbox"
    /\ ret.arg.selectable
    /\ ~ret.res.ok
    /\ selected_inbox.some
    /\ selected_inbox.v.name /= ret.arg.name

\* C25: select_inbox returns Ok, and records the mailbox as selected, only if
\* the server's tagged reply to the SELECT was a success; after a tagged NO
\* the mailbox is not recorded.
C25_SelectionTracksServer ==
    (ret.op = "select_inbox" /\ ret.res.ok) =>
        /\ Len(ret.sent) = 1
        /\ ret.sent[1] /= <<>>
        /\ ret.sent[1][Len(ret.sent[1])] = Tagged("OK")

\* the tree holds a text/plain leaf
RECURSIVE HasPlain(_)
HasPlain(t) ==
    \/ t.kind = "Plain"
    \/ /\ t.kind \in {"Mixed", "Related", "Alternative"}
       /\ \E i \in 1..Len(t.arr) : HasPlain(t.arr[i])

\* C13: read_email first sends FETCH <id> (BODYSTRUCTURE); it sends
\* FETCH <id> BODY[<path>] only after that reply parsed and held a plain-text
\* leaf, with the path of that leaf and the same id.  When the structure does
\* not parse or holds no plain-text leaf, read_email returns an error and
\* sends no BODY fetch.
C13_StructureBeforeBody ==
    ret.op = "read_email" =>
        /\ Len(wire) <= 2
        /\ wire /= <<>> => wire[1] = FetchStructureCmd(ret.id)
        /\ Len(wire) = 2 =>
                /\ ret.bs.ok /\ HasPlain(ret.bs.v)
                /\ wire[2] = FetchBodyCmd(ret.id, find_text(ret.bs.v).v)
        /\ (~ret.bs.ok \/ ~HasPlain(ret.bs.v)) => (~ret.res.ok /\ Len(wire) <= 1)

\* the body of the text part at 1.2 was fetched
C13_FetchedNestedText ==
    /\ ret.op = "read_email"
    /\ ret.res.ok
    /\ Len(wire) = 2
    /\ wire[2].section = "1.2"

\* ------------------------------------------------- properties of the cache
\* C1: after one or more batches that get_current_page fetched and the server
\* answered with the messages asked for, the cached headers are in strictly
\* descending order of id and the ids of two neighbours differ by exactly 1.
C1_DescendingContiguous ==
    (honest /\ batches >= 1) =>
        \A i \in 1..(Len(messages) - 1) : messages[i].id = messages[i + 1].id + 1

\* two batches were appended, both as the server was asked for them
C1_TwoHonestBatches ==
    /\ honest
    /\ batches >= 2
    /\ Len(messages) = 40

\* C26: the cache starts at the newest message.  After the first batch that
\* get_current_page fetched on an empty cache of a mailbox of N messages, the
\* first cached header has sequence number N, and after k batches the cached
\* ids are N, N - 1, ... down to the lowest fetched id, none missing at the top.
C26_StartsAtNewest ==
    (honest /\ batches >= 1 /\ messages /= <<>>) =>
        /\ messages[1].id = srv_count
        /\ \A i \in 1..Len(messages) : messages[i].id = srv_count - (i - 1)

\* C27: with page_size at most the batch size of 20 and a mailbox that holds
\* more messages than the page asked for, a get_current_page that appended a
\* batch passes its final assertion range.end <= messages.len(), whatever
\* next_page and prev_page calls came before it.
C27_AssertionHolds ==
    [][(/\ ret'.op = "get_current_page"
        /\ page_size <= 20
        /\ srv_count > get_range_from_page.end
        /\ messages' /= messages
        /\ honest') =>
            /\ get_range_from_page.end <= Len(messages')
            /\ ret'.res /= Panic]_vars

\* C28: every FETCH range get_current_page sends stays within the valid sequence
\* numbers: both bounds are at least 1, and they are computed without an
\* unsigned underflow (no overflow panic, no wrapped bound), for every mailbox
\* size from 0 on and whatever the cache holds.
C28_RangeWithinSequenceNumbers ==
    ret.op = "get_current_page" =>
        /\ \A i \in 1..Len(wire) :
              wire[i].verb = "FETCH" => (wire[i].lhs.n >= 1 /\ wire[i].rhs.n >= 1)
        /\ ret.res = Panic => last_fetch.some

\* C2: when get_current_page has returned Ok and is called again with no
\* next_page or prev_page in between, the second call returns the same headers,
\* writes no command and leaves the cache and the transport as they were.
C2_SecondCallFromCache ==
    [][(page_ok.some /\ ret'.op = "get_current_page") =>
            /\ ret'.res = Ok(page_ok.v)
            /\ wire' = <<>>
            /\ messages' = messages
            /\ stream' = stream]_vars

\* a second call on the same page, after a first one that fetched a batch
C2_CalledAgain ==
    /\ ret.op = "get_current_page"
    /\ page_ok.some /\ page_ok.again
    /\ batches >= 1
    /\ page_ok.v /= <<>>

\* a block of a FETCH reply with no id, no Subject line or no From line
Unparsable(block) ==
    block.k = "fetch" /\ (~block.id.some \/ ~block.subject \/ ~block.from)

HasUnparsable(val) == \E i \in 1..Len(val) : Unparsable(val[i])

\* C3: a header batch is all-or-nothing.  A FETCH reply with a block that has
\* no id, no Subject or no From makes the call an error, not a shorter batch;
\* and a get_current_page that returns an error (from the parse, from STATUS or
\* from the transport) leaves the cached headers and current_page as they were.
C3_BatchAllOrNothing ==
    [][ret'.op = "get_current_page" =>
            /\ (last_fetch'.some /\ HasUnparsable(last_fetch'.v)) =>
                    (~ret'.res.ok /\ ret'.res /= Panic)
            /\ (~ret'.res.ok /\ ret'.res /= Panic) =>
                    (messages' = messages /\ current_page' = current_page)]_vars

\* a batch with an unparsable block was refused while the cache held headers
C3_BadBlockRefused ==
    /\ ret.op = "get_current_page"
    /\ ~ret.res.ok
    /\ last_fetch.some /\ HasUnparsable(last_fetch.v)
    /\ \E i \in 1..Len(last_fetch.v) : ~Unparsable(last_fetch.v[i])
    /\ messages /= <<>>

\* C19: the cache is append-only: across every operation of MessageCollection,
\* successful or not, the header sequence before it is a prefix of the one after
\* it; it grows only in a call of get_current_page that fetches (the page was
\* not in the cache), and next_page and prev_page change nothing but
\* current_page.
C19_AppendOnly ==
    [][/\ Len(messages') >= Len(messages)
       /\ SubSeq(messages', 1, Len(messages)) = messages
       /\ messages' /= messages =>
            /\ ret'.op \in {"get_current_page", "get_body"}
            /\ ~Cached(get_range_from_page)
            /\ \E i \in 1..Len(wire') : wire'[i].verb = "FETCH"
       /\ ret'.op \in {"next_page", "prev_page"} =>
            UNCHANGED <<messages, page_size, stream, closed, selected_inbox>>]_vars

\* a call failed after a second batch had been appended, and the cache holds
\* both batches
C19_FailedWithCacheKept ==
    /\ ret.op \in {"get_current_page", "get_body"}
    /\ ~ret.res.ok
    /\ batches = 2
    /\ Len(messages) > 20

\* C20: prev_page takes one from current_page and stops at zero; next_page adds
\* exactly one; neither writes a command.
C20_PageSteps ==
    /\ ret.op = "prev_page" =>
         /\ current_page = (IF ret.from = 0 THEN 0 ELSE ret.from - 1)
         /\ wire = <<>>
    /\ ret.op = "next_page" =>
         /\ current_page = ret.from + 1
         /\ wire = <<>>

\* prev_page was called on page 0
C20_StayedOnPageZero ==
    /\ ret.op = "prev_page"
    /\ ret.from = 0
    /\ current_page = 0

\* C23: the message count is asked for only to seed the boundary of an empty
\* cache: a get_current_page called while the cache holds headers writes no
\* STATUS command.
C23_StatusOnlyForEmptyCache ==
    [][(ret'.op = "get_current_page" /\ messages /= <<>>) =>
            \A i \in 1..Len(wire') : wire'[i].verb /= "STATUS"]_vars

\* ------------------------------------------------------ response framing
\* lines a response is made of
FramingLines == {Tagged("OK"), Tagged("NO"), Tagged("BAD"), Capability, BodyLine(1)}

\* the sequences of at most n of them
RECURSIVE LinesUpTo(_)
LinesUpTo(n) ==
    IF n = 0 THEN {<<>>}
    ELSE LinesUpTo(n - 1) \cup
         {Append(q, l) : q \in {x \in LinesUpTo(n - 1) : Len(x) = n - 1}, l \in FramingLines}

\* a session with some lines of earlier answers unread
FramingInit ==
    /\ phase = "framing"
    /\ selected_inbox = None
    /\ stream \in LinesUpTo(MaxUnread)
    /\ closed \in BOOLEAN
    /\ wire = <<>>
    /\ ret = [op |-> "none", res |-> Ok(<<>>)]
    /\ inboxes = {}
    /\ srv_authed = TRUE
    /\ srv_count = 1
    /\ overflow_checks = FALSE
    /\ CacheIdle
    /\ SmtpIdle

\* IMap::execute_cmd, as every operation but login goes through it
ExecuteCmd ==
    /\ phase \in {"framing", "session"}
    /\ Len(stream) <= MaxUnread
    /\ \E cmd \in {ListCmd, FetchBodyCmd(1, "1")} : \E r \in execute_cmd(IO, cmd) :
         /\ SetIO(r)
         /\ ret' = [op |-> "execute_cmd", res |-> r.res, heard |-> r.io.heard,
                    sent |-> r.io.sent]
    /\ UNCHANGED <<phase, selected_inbox, inboxes, srv_authed, build_vars, cache_vars, smtp_vars>>

FramingNext ==
    \/ ExecuteCmd

SpecFraming == FramingInit /\ [][FramingNext]_vars

\* what C11 asks of one response: of the lines `h` that were there to read,
\* those before the first line starting with "?"; an error when that line
\* holds BAD, and "connection ended" when there is no such line
Framed(h) ==
    IF \A i \in 1..Len(h) : h[i].k /= "tagged" THEN Err("connection ended")
    ELSE LET i == CHOOSE n \in 1..Len(h) :
                      h[n].k = "tagged" /\ \A j \in 1..(n - 1) : h[j].k /= "tagged"
         IN  IF h[i].st = "BAD" THEN Err("CMD FAILED") ELSE Ok(SubSeq(h, 1, i - 1))

\* one session: the connection, logins, and commands through execute_cmd
AlignNext ==
    \/ Connect
    \/ Login
    \/ ExecuteCmd

SpecAlign == Init /\ [][AlignNext]_vars

\* C24: after connect and login, what execute_cmd returns for a command is
\* made of all and only the lines the server sent in answer to that command:
\* no line left from an earlier reply, the reply to LOGIN included, is taken
\* for the answer.
C24_RepliesAligned ==
    (ret.op = "execute_cmd" /\ phase = "session" /\ Len(ret.sent) = 1) =>
        ret.res = Framed(ret.sent[1])

Tuples(S, lo, hi) == UNION {[1..k -> S] : k \in lo..hi}

Leaves ==
    {TextPlain, TextHtml, TextCalendar, ImagePng, ImageParens, ImageGif, AppPdf, AppClosed}

\* multiparts of leaves
FlatBodies ==
    {Multipart(st, parts, "b1") :
        st \in {"ALTERNATIVE", "MIXED", "RELATED"}, parts \in Tuples(Leaves, 1, MaxParts)}

\* multiparts with multiparts among their parts, in first and later position
InnerBodies ==
    { Multipart("RELATED", <<TextHtml, ImagePng>>, "b2"),
      Multipart("RELATED", <<TextPlain>>, "b2"),
      Multipart("ALTERNATIVE", <<TextHtml, TextPlain>>, "b2") }

NestedBodies ==
    {Multipart("MIXED", parts, "b1") :
        parts \in Tuples({TextPlain, TextHtml, ImagePng, TextCalendar} \cup InnerBodies, 1, MaxParts)}

DeepBodies ==
    { Multipart("MIXED",
        <<Multipart("ALTERNATIVE",
            <<Multipart("RELATED", <<TextHtml, ImagePng>>, "b3"), TextPlain>>, "b2"),
          ImagePng>>, "b1"),
      Multipart("ALTERNATIVE",
        <<TextHtml,
          Multipart("MIXED",
            <<ImagePng, Multipart("RELATED", <<TextPlain, ImagePng>>, "b3")>>, "b2")>>, "b1") }

Bodies == Leaves \cup FlatBodies \cup NestedBodies \cup DeepBodies

\* BodyStructure values, built directly
TreeLeaves ==
    {Plain, Html, Image(FileMeta("PNG", "a.png")), Application(FileMeta("PDF", "a.pdf"))}

InnerTrees == {Related(arr, "b2") : arr \in Tuples({Plain, Html}, 0, MaxParts)}

BodyStructures ==
    TreeLeaves \cup
    {[kind |-> k, arr |-> arr, boundary |-> "b1"] :
        k \in {"Alternative", "Mixed", "Related"},
        arr \in Tuples(TreeLeaves \cup InnerTrees, 0, MaxParts)}

\* a reply line to parse, or a BodyStructure to search
BodyInit ==
    /\ phase = "body"
    /\ selected_inbox = None
    /\ stream = <<>>
    /\ closed = FALSE
    /\ wire = <<>>
    /\ ret \in {[op |-> "text", body |-> b] : b \in Bodies}
               \cup {[op |-> "tree", bs |-> t] : t \in BodyStructures}
    /\ inboxes = {}
    /\ srv_authed = TRUE
    /\ srv_count = 1
    /\ overflow_checks = FALSE
    /\ CacheIdle
    /\ SmtpIdle

\* BodyStructure::from_str on the reply line
FromStr ==
    /\ phase = "body"
    /\ ret.op = "text"
    /\ ret' = [op |-> "from_str", body |-> ret.body, res |-> from_str(FetchLine(ret.body))]
    /\ UNCHANGED <<phase, selected_inbox, stream, closed, wire, inboxes, srv_authed,
                   build_vars, cache_vars, smtp_vars>>

\* BodyStructure::find_text on a parsed or a given BodyStructure
FindText ==
    /\ phase = "body"
    /\ \/ ret.op = "tree" /\ ret' = [op |-> "find_text", bs |-> ret.bs, body |-> None,
                                     res |-> find_text(ret.bs)]
       \/ ret.op = "from_str" /\ ret.res.ok
            /\ ret' = [op |-> "find_text", bs |-> ret.res.v, body |-> Some(ret.body),
                       res |-> find_text(ret.res.v)]
    /\ UNCHANGED <<phase, selected_inbox, stream, closed, wire, inboxes, srv_authed,
                   build_vars, cache_vars, smtp_vars>>

BodyNext ==
    \/ FromStr
    \/ FindText

SpecBody == BodyInit /\ [][BodyNext]_vars

\* the section numbers, in IMAP's numbering, of the text/plain parts of a body
RECURSIVE PlainSections(_, _)
PlainSections(body, path) ==
    IF body.multi
    THEN UNION {PlainSections(body.parts[i], Append(path, i)) : i \in 1..Len(body.parts)}
    ELSE IF body.type = "TEXT" /\ body.subtype = "PLAIN"
    THEN {IF path = <<>> THEN <<1>> ELSE path}
    ELSE {}

\* C14: for every BODYSTRUCTURE reply the parser accepts, the path of the
\* text-part lookup is a section number of the message as the server described
\* it: each index is the position of the chosen part among all parts of its
\* parent, so BODY[path] addresses a text/plain part.
C14_PathAddressesTextPlain ==
    (ret.op = "find_text" /\ ret.body.some /\ ret.res.some) =>
        ret.res.v \in {JoinDots(p) : p \in PlainSections(ret.body.v, <<>>)}

\* the index paths of the Plain leaves of a BodyStructure
RECURSIVE PlainPaths(_, _)
PlainPaths(t, path) ==
    IF t.kind = "Plain" THEN {path}
    ELSE IF t.kind \in {"Html", "Image", "Application"} THEN {}
    ELSE UNION {PlainPaths(t.arr[i], Append(path, i)) : i \in 1..Len(t.arr)}

\* p comes before q in depth-first, left-to-right order
RECURSIVE Before(_, _)
Before(p, q) ==
    /\ p /= <<>> /\ q /= <<>>
    /\ \/ p[1] < q[1]
       \/ p[1] = q[1] /\ Before(Tail(p), Tail(q))

\* C15: find_text returns the path of the first Plain leaf in depth-first,
\* left-to-right order as dot-joined 1-based child indices, "1" for a root
\* that is a Plain leaf, and none exactly when the tree holds no Plain leaf.
C15_FirstPlainInOrder ==
    ret.op = "find_text" =>
        LET paths == PlainPaths(ret.bs, <<>>)
        IN  IF paths = {} THEN ~ret.res.some
            ELSE LET first == CHOOSE p \in paths : \A q \in paths \ {p} : Before(p, q)
                 IN  ret.res = Some(IF first = <<>> THEN "1" ELSE JoinDots(first))

\* the Plain leaf of a multipart in second position was found, behind Html
C15_FoundInLaterChild ==
    /\ ret.op = "find_text"
    /\ ~ret.body.some
    /\ ret.bs.kind = "Mixed"
    /\ Len(ret.bs.arr) = 2 /\ ret.bs.arr[1] = Html /\ ret.bs.arr[2].kind = "Related"
    /\ ret.res = Some("2.2")

\* the BodyStructure a description denotes
RECURSIVE TreeOf(_)
TreeOf(body) ==
    IF body.multi
    THEN [kind |-> CASE body.subtype = "ALTERNATIVE" -> "Alternative"
                     [] body.subtype = "MIXED" -> "Mixed"
                     [] body.subtype = "RELATED" -> "Related",
          arr |-> [i \in 1..Len(body.parts) |-> TreeOf(body.parts[i])],
          boundary |-> body.boundary]
    ELSE IF body.type = "TEXT" THEN (IF body.subtype = "PLAIN" THEN Plain ELSE Html)
    ELSE IF body.type = "IMAGE" THEN Image(FileMeta(body.subtype, body.params.name.v))
    ELSE Application(FileMeta(body.subtype, body.params.name.v))

\* a nesting of TEXT/PLAIN, TEXT/HTML and named IMAGE leaves
RECURSIVE Recognized(_)
Recognized(body) ==
    IF body.multi THEN \A i \in 1..Len(body.parts) : Recognized(body.parts[i])
    ELSE \/ body.type = "TEXT" /\ body.subtype \in {"PLAIN", "HTML"}
         \/ body.type = "IMAGE" /\ body.params.name.some

\* C16: for every well-formed nesting of recognized leaves and ALTERNATIVE,
\* MIXED and RELATED multiparts, parsing yields one root of the input's shape:
\* each multipart holds its parts in their order and its own BOUNDARY value.
C16_GroupingReconstructsTree ==
    (ret.op = "from_str" /\ Recognized(ret.body)) => ret.res = Ok(TreeOf(ret.body))

\* C18: a leaf ("IMAGE" "<subtype>" ("NAME" "<file>" ...) ...) parses to Image
\* and a leaf ("APPLICATION" "<subtype>" ("NAME" "<file>" ...) ...) parses to
\* Application, each with the leaf's subtype and NAME value.
C18_NamedLeavesParse ==
    ( /\ ret.op = "from_str"
      /\ ~ret.body.multi
      /\ ret.body.type \in {"IMAGE", "APPLICATION"}
      /\ \E file \in {"a.png", "a.pdf"} : ret.body.params = Named(file) )
    => ret.res = Ok(TreeOf(ret.body))

\* ==================================================================== SMTP
\* One reply line is the sequence of its space-separated words; the line's
\* "\r\n" stays on its last word.
Line(code) == <<ToString(code), "text\r\n">>
Continuation == <<"250-text", "text\r\n">>
\* a reply code with no text behind it
Bare(code) == <<ToString(code) \o "\r\n">>
\* a continuation line with a number among its words
SizeLine == <<"250-SIZE", "100", "bytes\r\n">>

\* the numbers a word of the lines above can spell
Numbers == {100, 220, 235, 250, 334, 354, 421, 501, 504, 530, 535, 550, 554}

\* str::parse::<u32>
parse_u32(word) ==
    IF \E n \in Numbers : ToString(n) = word
    THEN Some(CHOOSE n \in Numbers : ToString(n) = word)
    ELSE None

\* buf.split(' ').find_map(|x| x.parse::<u32>().ok())
find_map(line) ==
    IF \E i \in 1..Len(line) : parse_u32(line[i]).some
    THEN parse_u32(line[CHOOSE i \in 1..Len(line) :
                          /\ parse_u32(line[i]).some
                          /\ \A j \in 1..(i - 1) : ~parse_u32(line[j]).some])
    ELSE None

SmtpReply(lines) == [lines |-> lines, close |-> FALSE]
\* the server says 421 and closes
SmtpBye == [lines |-> <<Line(421)>>, close |-> TRUE]

SmtpCmd(verb, arg) == [verb |-> verb, arg |-> arg]
Wrote(cmd) == [t |-> "write", cmd |-> cmd, code |-> 0]
ReadCode(n) == [t |-> "read", cmd |-> SmtpCmd("", ""), code |-> n]

\* openssl::base64::encode_block
B64(x) == "b64:" \o x

\* The server's possible replies to what it is sent
SmtpReplies(cmd) ==
    CASE cmd.verb = "EHLO" ->
            {SmtpReply(<<Continuation, Continuation, Line(250)>>), SmtpReply(<<Line(250)>>),
             SmtpReply(<<Continuation, SizeLine, Line(250)>>), SmtpReply(<<Line(501)>>)}
      [] cmd.verb = "AUTH LOGIN" -> {SmtpReply(<<Line(334)>>), SmtpReply(<<Line(504)>>)}
      [] cmd.verb = "USERNAME" -> {SmtpReply(<<Line(334)>>), SmtpReply(<<Line(535)>>)}
      [] cmd.verb = "PASSWORD" -> {SmtpReply(<<Line(235)>>), SmtpReply(<<Line(535)>>)}
      [] cmd.verb = "MAIL FROM" -> {SmtpReply(<<Line(250)>>), SmtpReply(<<Line(530)>>)}
      [] cmd.verb = "RCPT TO" -> {SmtpReply(<<Line(250)>>), SmtpReply(<<Line(550)>>)}
      [] cmd.verb = "DATA" -> {SmtpReply(<<Line(354)>>), SmtpReply(<<Line(554)>>)}
      [] OTHER -> {SmtpReply(<<Line(250)>>), SmtpReply(<<Bare(250)>>), SmtpReply(<<Line(554)>>)}

SmtpRound(io, replies) ==
    IF io.closed
    THEN {[w |-> w, lines |-> <<>>, close |-> TRUE] : w \in BOOLEAN}
    ELSE {[w |-> TRUE, lines |-> r.lines, close |-> r.close] :
            r \in replies \cup {Hangup, SmtpBye}}

\* The SMTP transport at the start of an operation
SmtpIO == [stream |-> smtp_stream, closed |-> smtp_closed, log |-> <<>>]

\* write!(self.stream, ...): the outcome [io, res, hung]
smtp_write(io, cmd, w) ==
    IF w THEN [io |-> [io EXCEPT !.log = Append(@, Wrote(cmd))], res |-> Ok(<<>>), hung |-> FALSE]
    ELSE [io |-> io, res |-> Err("write failed"), hung |-> FALSE]

FirstNumbered(s) ==
    IF \E i \in 1..Len(s) : find_map(s[i]).some
    THEN CHOOSE i \in 1..Len(s) : find_map(s[i]).some /\ \A j \in 1..(i - 1) : ~find_map(s[j]).some
    ELSE 0

\* a check_response that takes any reply code for the expected one
check_response_Any(io, expected_num) ==
    LET s == io.stream
        i == FirstNumbered(s)
        num == find_map(s[i]).v
    IN  IF i = 0
        THEN {[io |-> [io EXCEPT !.stream = <<>>], res |-> Err("no return"), hung |-> TRUE]}
        ELSE { [io |-> [io EXCEPT !.stream = Drop(Drop(s, i), d),
                                  !.log = Append(@, ReadCode(num))],
                res |-> Ok(<<>>), hung |-> FALSE] : d \in Losses(Drop(s, i)) }

\* SMTP::check_response: read lines until one holds a number, compare it with
\* the expected code.  A read of zero bytes holds no number, so on a closed
\* connection the loop never ends.  The lines the BufReader holds behind the
\* one it stopped at may go with it when it is dropped.
check_response(io, expected_num) ==
    LET s == io.stream
        i == FirstNumbered(s)
        num == find_map(s[i]).v
    IN  IF i = 0
        THEN {[io |-> [io EXCEPT !.stream = <<>>], res |-> Err("no return"), hung |-> TRUE]}
        ELSE { [io |-> [io EXCEPT !.stream = Drop(Drop(s, i), d),
                                  !.log = Append(@, ReadCode(num))],
                res |-> IF num = expected_num THEN Ok(<<>>) ELSE Err(ToString(num)),
                hung |-> FALSE] : d \in Losses(Drop(s, i)) }

\* A write, the server's reply to it, and check_response
Exchange(io, cmd, expected_num) ==
    UNION { LET w == smtp_write(io, cmd, e.w)
            IN  IF w.res.ok
                THEN check_response([w.io EXCEPT !.stream = @ \o e.lines, !.closed = e.close],
                                    expected_num)
                ELSE {w} : e \in SmtpRound(io, SmtpReplies(cmd)) }

\* str::split_once("@"): the part after the first "@"
Domain(username) ==
    CASE username = "me@example.com" -> Some("example.com")
      [] OTHER -> None

\* a login that sends the password whatever the reply to the username was
smtp_login_Unchecked(io, username, password) ==
    IF ~Domain(username).some THEN {[io |-> io, res |-> Err("Invalid domain not found"), hung |-> FALSE]}
    ELSE UNION { IF ~a.res.ok THEN {a} ELSE
         UNION { IF ~b.res.ok THEN {b} ELSE
         UNION { IF c.hung \/ c.io.log[Len(c.io.log)].t /= "read" THEN {c} ELSE
                 Exchange(c.io, SmtpCmd("PASSWORD", B64(password)), 235) :
                   c \in Exchange(b.io, SmtpCmd("USERNAME", B64(username)), 334) } :
                   b \in Exchange(a.io, SmtpCmd("AUTH LOGIN", ""), 334) } :
                   a \in Exchange(io, SmtpCmd("EHLO", Domain(username).v), 250) }

\* SMTP::login: the outcomes [io, res, hung]; every `?` ends the call at
\* the first step that is not Ok
smtp_login(io, username, password) ==
    IF ~Domain(username).some THEN {[io |-> io, res |-> Err("Invalid domain not found"), hung |-> FALSE]}
    ELSE UNION { IF ~a.res.ok THEN {a} ELSE
         UNION { IF ~b.res.ok THEN {b} ELSE
         UNION { IF ~c.res.ok THEN {c} ELSE
                 Exchange(c.io, SmtpCmd("PASSWORD", B64(password)), 235) :
                   c \in Exchange(b.io, SmtpCmd("USERNAME", B64(username)), 334) } :
                   b \in Exchange(a.io, SmtpCmd("AUTH LOGIN", ""), 334) } :
                   a \in Exchange(io, SmtpCmd("EHLO", Domain(username).v), 250) }

\* the loop over to ++ cc ++ bcc
RECURSIVE rcpt_loop(_, _)
rcpt_loop(io, recvs) ==
    IF recvs = <<>> THEN {[io |-> io, res |-> Ok(<<>>), hung |-> FALSE]}
    ELSE UNION { IF ~a.res.ok THEN {a} ELSE rcpt_loop(a.io, Tail(recvs)) :
                   a \in Exchange(io, SmtpCmd("RCPT TO", Head(recvs)), 250) }

UnwrapOr(opt) == IF opt.some THEN opt.v ELSE <<>>

\* the blind copies addressed first
Recipients_BccFirst(to, cc, bcc) == UnwrapOr(bcc) \o to \o UnwrapOr(cc)

\* to.iter().chain(cc.unwrap_or(&[]).iter()).chain(bcc.unwrap_or(&[]).iter())
Recipients(to, cc, bcc) == to \o UnwrapOr(cc) \o UnwrapOr(bcc)

\* write!(self.stream, "{}\r\n.\r\n", body): the text of the last write
BodyWrite(body) == body \o "\r\n.\r\n"

\* the header lines and the body with the line "." behind it, as the writes
\* that carry them
ContentWrites(to, cc, bcc, subject, body) ==
    << SmtpCmd("Subject, To", subject) >>
    \o (IF cc.some THEN << SmtpCmd("Cc", "") >> ELSE <<>>)
    \o (IF bcc.some THEN << SmtpCmd("Bcc", "") >> ELSE <<>>)
    \o << SmtpCmd("body, end of data", BodyWrite(body)) >>

\* the writes of the message; the server answers the last one
RECURSIVE content(_, _)
content(io, writes) ==
    IF Len(writes) = 1 THEN Exchange(io, writes[1], 250)
    ELSE UNION { LET a == smtp_write(io, writes[1], w)
                 IN  IF ~a.res.ok THEN {a} ELSE content(a.io, Tail(writes)) :
                   w \in IF io.closed THEN BOOLEAN ELSE {TRUE} }

\* SMTP::send_email
send_email(io, username, to, cc, bcc, subject, body) ==
    IF ~username.some THEN {[io |-> io, res |-> Err("blah"), hung |-> FALSE]}
    ELSE UNION { IF ~a.res.ok THEN {a} ELSE
         UNION { IF ~b.res.ok THEN {b} ELSE
         UNION { IF ~c.res.ok THEN {c} ELSE
                 content(c.io, ContentWrites(to, cc, bcc, subject, body)) :
                   c \in Exchange(b.io, SmtpCmd("DATA", ""), 354) } :
                   b \in rcpt_loop(a.io, Recipients(to, cc, bcc)) } :
                   a \in Exchange(io, SmtpCmd("MAIL FROM", username.v), 250) }

\* ------------------------------------------------------------ SMTP inputs
Usernames == {"me@example.com", "me"}
ToLists == { <<"a@x">>, <<"a@x", "b@x">> }
CcLists == { None, Some(<<"c@x">>) }
BccLists == { None, Some(<<"d@x">>) }
\* message bodies: one line, and three lines of which the second is "."
SmtpBodies == { "hello", "one\r\n.\r\nQUIT" }

\* ----------------------------------------------------------- SMTP actions
SetSmtp(r) ==
    /\ smtp_stream' = r.io.stream
    /\ smtp_closed' = r.io.closed
    /\ smtp_log' = r.io.log

\* the sender recorded whatever became of the login
login_username_Early(old, username, res) == Some(username)

\* SMTP::login records the sender after the last check_response
login_username(old, username, res) == IF res.ok THEN Some(username) ELSE old

\* the last thing a login did was to read 235 in answer to the password
Read235(log) ==
    /\ Len(log) >= 2
    /\ log[Len(log)] = ReadCode(235)
    /\ log[Len(log) - 1].t = "write" /\ log[Len(log) - 1].cmd.verb = "PASSWORD"

\* SMTP::connect: the session exists only after a greeting of 220
SmtpConnect ==
    /\ smtp_phase = "start"
    /\ \E up \in BOOLEAN :
         IF ~up
         THEN /\ smtp_ret' = [op |-> "connect", res |-> Err("connect failed")]
              /\ smtp_log' = <<>>
              /\ UNCHANGED <<smtp_phase, smtp_stream, smtp_closed>>
         ELSE \E greeting \in {SmtpReply(<<Line(220)>>), SmtpReply(<<Line(554)>>), Hangup, SmtpBye} :
              \E r \in check_response([stream |-> greeting.lines, closed |-> greeting.close,
                                       log |-> <<>>], 220) :
                  /\ smtp_ret' = [op |-> "connect", res |-> r.res]
                  /\ smtp_phase' = IF r.hung THEN "hung" ELSE IF r.res.ok THEN "session" ELSE "start"
                  /\ IF r.res.ok THEN SetSmtp(r)
                     ELSE smtp_stream' = <<>> /\ smtp_closed' = FALSE /\ smtp_log' = r.io.log
    /\ UNCHANGED <<smtp_username, smtp_authed, imap_vars>>

SmtpLogin ==
    /\ smtp_phase = "session"
    /\ Len(smtp_stream) <= MaxStale
    /\ \E username \in Usernames : \E r \in smtp_login(SmtpIO, username, "secret") :
         /\ SetSmtp(r)
         /\ smtp_ret' = [op |-> "login", res |-> r.res, username |-> username]
         /\ smtp_phase' = IF r.hung THEN "hung" ELSE smtp_phase
         /\ smtp_username' = login_username(smtp_username, username, r.res)
         /\ smtp_authed' = (smtp_authed \/ Read235(r.io.log))
    /\ UNCHANGED imap_vars

SmtpSendEmail ==
    /\ smtp_phase = "session"
    /\ Len(smtp_stream) <= MaxStale
    /\ \E to \in ToLists, cc \in CcLists, bcc \in BccLists, body \in SmtpBodies :
       \E r \in send_email(SmtpIO, smtp_username, to, cc, bcc, "subject", body) :
         /\ SetSmtp(r)
         /\ smtp_ret' = [op |-> "send_email", res |-> r.res, to |-> to, cc |-> cc, bcc |-> bcc]
         /\ smtp_phase' = IF r.hung THEN "hung" ELSE smtp_phase
    /\ UNCHANGED <<smtp_username, smtp_authed, imap_vars>>

ImapIdle ==
    /\ phase = "start"
    /\ selected_inbox = None
    /\ stream = <<>>
    /\ closed = FALSE
    /\ wire = <<>>
    /\ ret = [op |-> "none", res |-> Ok(<<>>)]
    /\ inboxes = {}
    /\ srv_authed = FALSE
    /\ srv_count = 0
    /\ overflow_checks = FALSE
    /\ CacheIdle

SmtpInit == ImapIdle /\ SmtpIdle

SmtpNext ==
    \/ SmtpConnect
    \/ SmtpLogin
    \/ SmtpSendEmail

SpecSmtp == SmtpInit /\ [][SmtpNext]_vars

\* ------------------------------------------- properties of the SMTP session
\* In the properties below the reply code of a step is the number
\* check_response read for it: the first word of a reply line that parses as
\* a number.

\* `log` is a dialogue by `script`: its k-th command is written at position
\* 2k-1 and, when it is not the first, right behind a read of the code expected
\* in answer to the command before it; between two commands there is one read.
Conforms(log, script, codes) ==
    \A i \in 1..Min(Len(log), 2 * Len(script)) :
        IF i % 2 = 1
        THEN /\ log[i] = Wrote(script[(i + 1) \div 2])
             /\ i > 1 => log[i - 1] = ReadCode(codes[(i - 1) \div 2])
        ELSE log[i].t = "read"

\* the first reply with another code than expected ended the dialogue
StopsAtMismatch(log, codes) ==
    \A k \in 1..Len(codes) :
        (Len(log) >= 2 * k /\ log[2 * k].t = "read" /\ log[2 * k].code /= codes[k])
            => Len(log) = 2 * k

Mismatch(log, codes) ==
    \E k \in 1..Len(codes) :
        Len(log) >= 2 * k /\ log[2 * k].t = "read" /\ log[2 * k].code /= codes[k]

LoginScript(username) ==
    << SmtpCmd("EHLO", Domain(username).v), SmtpCmd("AUTH LOGIN", ""),
       SmtpCmd("USERNAME", B64(username)), SmtpCmd("PASSWORD", B64("secret")) >>

LoginCodes == <<250, 334, 334, 235>>

\* C5: login sends EHLO, AUTH LOGIN, base64(username), base64(password) in
\* that order, each only after the reply code 250, 334, 334 to the step before
\* it; the sender is recorded only after a last reply of 235.  At the first
\* reply with another code login returns an error, sends nothing more and the
\* recorded sender stays what it was.
C5_LoginByReplyCodes ==
    [][(smtp_ret'.op = "login" /\ Domain(smtp_ret'.username).some) =>
            /\ Len(smtp_log') <= 2 * Len(LoginCodes)
            /\ Conforms(smtp_log', LoginScript(smtp_ret'.username), LoginCodes)
            /\ StopsAtMismatch(smtp_log', LoginCodes)
            /\ Mismatch(smtp_log', LoginCodes) => ~smtp_ret'.res.ok
            /\ smtp_ret'.res.ok =>
                    (Read235(smtp_log') /\ smtp_username' = Some(smtp_ret'.username))
            /\ ~smtp_ret'.res.ok => smtp_username' = smtp_username]_vars

\* a login that the server refused at the username: nothing was sent after
\* the refusal and no sender is recorded
C5_RefusedAtUsername ==
    /\ smtp_ret.op = "login"
    /\ ~smtp_ret.res.ok
    /\ Len(smtp_log) = 6
    /\ smtp_log[6] = ReadCode(535)
    /\ smtp_username = None

SendScript(username, to, cc, bcc) ==
    << SmtpCmd("MAIL FROM", username) >>
    \o [i \in 1..Len(to \o UnwrapOr(cc) \o UnwrapOr(bcc)) |->
            SmtpCmd("RCPT TO", (to \o UnwrapOr(cc) \o UnwrapOr(bcc))[i])]
    \o << SmtpCmd("DATA", "") >>

SendCodes(to, cc, bcc) ==
    [i \in 1..(Len(to \o UnwrapOr(cc) \o UnwrapOr(bcc)) + 2) |->
        IF i = Len(to \o UnwrapOr(cc) \o UnwrapOr(bcc)) + 2 THEN 354 ELSE 250]

IsContent(entry) ==
    entry.t = "write" /\ entry.cmd.verb \notin {"MAIL FROM", "RCPT TO", "DATA"}

\* C6: send_email sends MAIL FROM, then one RCPT TO for each recipient in the
\* order to, cc, bcc, each command only after the reply code 250 to the one
\* before it, then DATA only after 250 to every recipient, then the message
\* only after 354 to DATA.  When a command is answered with another code,
\* send_email returns an error and sends no further RCPT TO, no DATA and no
\* message content.
C6_SendByReplyCodes ==
    (smtp_ret.op = "send_email" /\ smtp_username.some) =>
        LET script == SendScript(smtp_username.v, smtp_ret.to, smtp_ret.cc, smtp_ret.bcc)
            codes == SendCodes(smtp_ret.to, smtp_ret.cc, smtp_ret.bcc)
            n == Len(script)
        IN  /\ Conforms(smtp_log, script, codes)
            /\ StopsAtMismatch(smtp_log, codes)
            /\ Mismatch(smtp_log, codes) => ~smtp_ret.res.ok
            /\ Len(smtp_log) > 2 * n => smtp_log[2 * n] = ReadCode(354)
            /\ \A i \in (2 * n + 1)..Len(smtp_log) :
                    IsContent(smtp_log[i]) \/ (i = Len(smtp_log) /\ smtp_log[i].t = "read")
            /\ smtp_ret.res.ok => (Len(smtp_log) > 2 * n /\ smtp_log[Len(smtp_log)] = ReadCode(250))

\* the second of several recipients was refused: the dialogue ended there
C6_SecondRecipientRefused ==
    /\ smtp_ret.op = "send_email"
    /\ ~smtp_ret.res.ok
    /\ Len(smtp_ret.to \o UnwrapOr(smtp_ret.cc) \o UnwrapOr(smtp_ret.bcc)) >= 3
    /\ Len(smtp_log) = 6
    /\ smtp_log[4] = ReadCode(250)
    /\ smtp_log[6] = ReadCode(550)

WroteMailFrom == \E i \in 1..Len(smtp_log) :
    smtp_log[i].t = "write" /\ smtp_log[i].cmd.verb = "MAIL FROM"

\* C7: MAIL FROM is written only on a session on which an earlier login ended
\* with the reply 235; where no login was made or every login failed,
\* send_email returns an error and writes nothing.
C7_SendNeedsLogin ==
    /\ WroteMailFrom => smtp_authed
    /\ (smtp_ret.op = "send_email" /\ ~smtp_authed) =>
            (~smtp_ret.res.ok /\ smtp_log = <<>>)

\* send_email was refused on a session with no login that ended with 235
C7_RefusedUnauthenticated ==
    /\ smtp_ret.op = "send_email"
    /\ ~smtp_authed
    /\ smtp_ret.res = Err("blah")
    /\ smtp_log = <<>>

\* C8: when the reply code of the greeting is not 220, connect fails, no
\* session comes of it and no command is sent.
C8_GreetingMustBe220 ==
    (smtp_ret.op = "connect" /\ smtp_log /= <<>> /\ smtp_log[1] /= ReadCode(220)) =>
        /\ ~smtp_ret.res.ok
        /\ smtp_phase = "start"
        /\ \A i \in 1..Len(smtp_log) : smtp_log[i].t /= "write"

\* the server greeted with 554
C8_GreetedWith554 ==
    /\ smtp_ret.op = "connect"
    /\ smtp_log = <<ReadCode(554)>>

\* The lines of a text as the server reads them: the pieces between the
\* "\r\n" line ends, without the empty piece after the last line end.
RECURSIVE CrlfLines(_, _, _)
CrlfLines(text, from, at) ==
    IF at + 1 > Len(text)
    THEN (IF from > Len(text) THEN <<>> ELSE << SubSeq(text, from, Len(text)) >>)
    ELSE IF SubSeq(text, at, at + 1) = "\r\n"
    THEN << SubSeq(text, from, at - 1) >> \o CrlfLines(text, at + 2, at + 2)
    ELSE CrlfLines(text, from, at + 1)

\* C29: a successful send_email transmits exactly one end-of-data line (a line
\* that is "." alone) after DATA, and it is the last line transmitted: no line
\* of the caller's body reaches the server as a bare "." line.
C29_OneEndOfData ==
    (smtp_ret.op = "send_email" /\ smtp_ret.res.ok) =>
        \A i \in 1..Len(smtp_log) :
            (smtp_log[i].t = "write" /\ smtp_log[i].cmd.verb = "body, end of data") =>
                LET lines == CrlfLines(smtp_log[i].cmd.arg, 1, 1)
                IN  /\ lines /= <<>>
                    /\ lines[Len(lines)] = "."
                    /\ \A j \in 1..(Len(lines) - 1) : lines[j] /= "."

\* C12: when the peer closes the connection while check_response awaits a
\* reply, the operation ends and returns an error: it does not loop forever.
C12_ClosedConnectionEndsTheCall ==
    smtp_closed => smtp_phase /= "hung"

====
